---- MODULE Spec2Model ----
(***************************************************************************)
(* State-machine model of the MINI-RAG page glue (frontend/script.js) and  *)
(* of the retrieval/indexing core its endpoints stand for.                 *)
(*                                                                         *)
(* frontend/script.js holds two near-identical builds of the page script   *)
(* (lines 1-369 and 370-674).  `version` says which build the page runs;   *)
(* the builds differ in API_BASE, in toast texts and in what               *)
(* displayUploadResult renders.                                            *)
(*                                                                         *)
(* Conventions: a JS value that may be null/absent is a sequence of length *)
(* 0 or 1 (Null == <<>>, Some(x) == <<x>>); a text built from a template   *)
(* is the tuple of its parts; a string of characters that the code trims   *)
(* is a sequence of one-character strings.                                 *)
(***************************************************************************)
EXTENDS Integers, Sequences, FiniteSets, TLC

\* ---------------------------------------------------------------- bounds
\* Pending "reset upload zone" timers (setTimeout 2000) tracked at once.
MaxTimers == 2
\* /api/query requests in flight at once.
MaxInFlight == 2
\* Whole-page runs: requests of a kind in flight, and reset timers pending.
MaxPagePending == 1

\* ------------------------------------------------------------ JS values
Null == <<>>
Some(x) == <<x>>
Undefined == "undefined"

\* JS `a || b` on strings: "" and undefined are falsy.
Falsy(x) == x \in {Undefined, ""}
OrElse(a, b) == IF Falsy(a) THEN b ELSE a

\* ------------------------------------------------------------ constants
PDF == "application/pdf"
\* 20 * 1024 * 1024 in handleFileSelect
MaxFileSize == 20 * 1024 * 1024
BytesPerMB == 1024 * 1024

Roles == {"Employee", "Admin", "HR"}
DocTypes == {"Employee", "HR"}

\* Files the user can pick or drop: {name, type, size in bytes}.
FileA == [name |-> "a.pdf", type |-> PDF, size |-> 1572864]
FileB == [name |-> "b.pdf", type |-> PDF, size |-> 20 * 1024 * 1024]
FileBig == [name |-> "big.pdf", type |-> PDF, size |-> 20 * 1024 * 1024 + 1]
FileTxt == [name |-> "notes.txt", type |-> "text/plain", size |-> 10]
FileNoType == [name |-> "scan.pdf", type |-> "", size |-> 10]
Files == {FileA, FileB, FileBig, FileTxt, FileNoType}
\* files[0] of a change/drop event: a file, or undefined (nothing chosen).
FileArgs == {Null} \cup {Some(f) : f \in Files}

ApiBase(v) ==
    IF v = 1 THEN "https://your-backend.up.railway.app"
    ELSE "https://mini-rag-mm0h.onrender.com"

\* Fixed toast texts of the two builds.
MsgNotPdf(v) == <<"Please select a PDF file">>
MsgTooBig(v) == IF v = 1 THEN <<"File size exceeds 20MB limit">> ELSE <<"File exceeds 20MB limit">>
MsgNoFile(v) == IF v = 1 THEN <<"Please select a PDF file first">> ELSE <<"Please select a PDF first">>
MsgUploaded(v) == IF v = 1 THEN <<"Document uploaded successfully!">> ELSE <<"Upload successful!">>
MsgUploadCatch(v) == IF v = 1 THEN "Upload failed. Please try again." ELSE "Upload failed"
MsgNoQuery(v) == <<"Please enter a question">>
MsgSearchCatch(v) == IF v = 1 THEN "Search failed. Please try again." ELSE "Search failed"
MsgHealth(v) ==
    IF v = 1 THEN <<"Warning: Backend connection issue. Check API_BASE in script.js">>
    ELSE <<"Backend connection issue">>

\* showToast(message, type): the toast appended to the toast container.
ShowToast(message, type) == [message |-> message, type |-> type]

\* Placeholder of the upload zone ('.upload-text', '.upload-subtext').
ZonePlaceholder == [text |-> <<"Drag & drop PDF here">>, subtext |-> <<"or click to browse">>]

\* (size / 1024 / 1024).toFixed(2): hundredths of a MB, rounded to nearest.
ToFixed2MB(size) == (size * 100 + BytesPerMB \div 2) \div BytesPerMB
ZoneFor(file) == [text |-> <<file.name>>, subtext |-> <<ToFixed2MB(file.size), " MB">>]

\* ----------------------------------------------------- the environment
\* Messages of the errors fetch() rejects with (a TypeError; may be empty).
NetworkErrors == {"Failed to fetch", ""}
\* Message of the SyntaxError response.json() rejects with.
JsonErrorMessage == "Unexpected token < in JSON at position 0"
\* Parsed bodies of non-200 responses: {detail: string}, detail maybe
\* empty or missing.
ErrorBodies == {[detail |-> "Only PDF files are allowed"], [detail |-> ""], [message |-> "x"]}
\* Parsed body of a 200 /api/upload response.
UploadOkBodies ==
    {[filename |-> "a.pdf", chunks_created |-> 3, text_length |-> 1000, doc_type |-> "HR"]}
\* sources of a 200 /api/query response (similarity in thousandths).
SourceList == <<[filename |-> "a.pdf", page |-> 2, similarity |-> 875]>>
\* Parsed bodies of a 200 /api/query response to request req.
SearchOkBodies(req) ==
    {[answer |-> <<"answer to", req.body.query>>,
      sources |-> IF Len(req.body.query) = 1 THEN SourceList ELSE <<>>]}

\* data.detail of a parsed body.
Detail(data) == IF "detail" \in DOMAIN data THEN data.detail ELSE Undefined

\* new Error(data.detail || fallback).message
ThrownMessage(data, fallback) == OrElse(Detail(data), fallback)

\* Texts the user can leave in the query input.
Whitespace == {" ", "\t", "\n"}
QueryTexts == {<<>>, <<" ", "\n">>, <<"\t", "q", " ">>, <<"a", " ", "b">>}

\* String.prototype.trim: strip leading and trailing whitespace.
RECURSIVE TrimLeft(_)
TrimLeft(s) ==
    IF s # <<>> /\ Head(s) \in Whitespace THEN TrimLeft(Tail(s)) ELSE s
RECURSIVE TrimRight(_)
TrimRight(s) ==
    IF s # <<>> /\ s[Len(s)] \in Whitespace THEN TrimRight(SubSeq(s, 1, Len(s) - 1)) ELSE s
Trim(s) == TrimRight(TrimLeft(s))

\* ------------------------------------------- retrieval / indexing core
\* Access tags and the configured role -> permitted tags mapping.
Tags == {"Employee", "HR", "Admin"}
\* doc_type values documents are ingested with.
IngestTags == {"Employee", "HR"}
RoleConfig ==
    [Employee |-> {"Employee"}, HR |-> {"Employee", "HR"}, Admin |-> {"Employee", "HR", "Admin"}]
\* Roles a caller may send; "Guest" has no mapping.
CallerRoles == {"Employee", "HR", "Admin", "Guest"}

\* Documents and the embeddings of their chunks, in chunk order.
Docs == {"d1", "d2"}
DocChunks(d) == IF d = "d1" THEN << <<3, 4>>, <<4, 3>> >> ELSE << <<6, 8>> >>
\* embed(query_text) of the one query text asked.
QueryVector == <<3, 4>>
\* Largest k asked of retrieve.
MaxK == 2

Dot(a, b) == a[1] * b[1] + a[2] * b[2]
ISqrt(x) == CHOOSE n \in 0..x : n * n <= x /\ (n + 1) * (n + 1) > x
Norm(a) == ISqrt(Dot(a, a))
\* Cosine similarity, in thousandths.
Cosine(a, b) == (Dot(a, b) * 1000) \div (Norm(a) * Norm(b))

\* allowed_tags(role): Some(set), or Null for UnknownRoleError.
AllowedTags(role) == IF role \in DOMAIN RoleConfig THEN Some(RoleConfig[role]) ELSE Null

\* A search that ranks every chunk, whatever its tag.
Candidates_All(idx, allowed) == 1..Len(idx)

\* Positions of idx a search under allowed_tags considers.
Candidates(idx, allowed) == {i \in 1..Len(idx) : idx[i].access_tag \in allowed}

\* Vector Index search: the k most similar candidates, similarity
\* descending, ties by insertion order.
SearchOver(idx, q, k, cand) ==
    LET sim(i) == Cosine(q, idx[i].embedding)
        Better(i, j) == sim(i) > sim(j) \/ (sim(i) = sim(j) /\ i < j)
        Rank(i) == Cardinality({j \in cand : Better(j, i)}) + 1
        n == IF k < Cardinality(cand) THEN k ELSE Cardinality(cand)
    IN [r \in 1..n |->
           LET i == CHOOSE j \in cand : Rank(j) = r
           IN [chunk |-> idx[i], similarity |-> sim(i)]]

Search(idx, q, k, allowed) == SearchOver(idx, q, k, Candidates(idx, allowed))

\* Vector Index delete(document_id): idx without that document's chunks.
RECURSIVE DeleteDoc(_, _)
DeleteDoc(idx, d) ==
    IF idx = <<>> THEN <<>>
    ELSE IF Head(idx).document_id = d THEN DeleteDoc(Tail(idx), d)
    ELSE <<Head(idx)>> \o DeleteDoc(Tail(idx), d)

NoRetrieve == [role |-> "", k |-> 0, outcome |-> "none", searched |-> FALSE, results |-> <<>>]

\* No search submitted yet / the newest one pending or failed.
EmptyPanel == [answerText |-> <<>>, sourcesList |-> <<>>]
NoSearch == [status |-> "none", panel |-> EmptyPanel]

\* ---------------------------------------------------------------- state
VARIABLES
    version,          \* which build of script.js the page runs (1 or 2)
    uploadRole,       \* let uploadRole
    searchRole,       \* let searchRole
    selectedFile,     \* let selectedFile: Null or Some(file)
    uploadZone,       \* texts of .upload-text / .upload-subtext
    docType,          \* docTypeSelect.value
    uploadBtn,        \* [disabled, loading] of #uploadBtn
    uploadResult,     \* #uploadResult.innerHTML: Null or Some(rendering)
    uploadCalls,      \* handleUpload invocations suspended at an await
    resetTimers,      \* pending setTimeout(reset, 2000) callbacks
    uploadedSelection, \* history: an upload of the file now selected has succeeded
    queryInput,       \* queryInput.value
    searchCalls,      \* handleSearch invocations suspended at an await, oldest first
    searchAlone,      \* history: the searches in flight never overlapped another
    newestSearch,     \* history: how the most recently submitted search stands
    loadingState,     \* loadingState.style.display
    answerContainer,  \* answerContainer.style.display
    answerPanel,      \* answerText.textContent and sourcesList.innerHTML
    toast,            \* the last toast handed to showToast: Null or Some(toast)
    health,           \* checkBackendHealth: "pending" or "done"
    index,            \* Vector Index: the chunk records, in insertion order
    ingest,           \* per document: where its ingest call stands
    lastRetrieve      \* the latest retrieve call and what it returned

uploadVars == <<selectedFile, uploadZone, docType, uploadBtn, uploadResult, uploadCalls, resetTimers,
                uploadedSelection>>
searchVars == <<queryInput, searchCalls, searchAlone, newestSearch, loadingState, answerContainer,
                answerPanel>>
roleVars == <<uploadRole, searchRole>>
pageVars == <<version, roleVars, uploadVars, searchVars, toast, health>>
coreVars == <<index, ingest, lastRetrieve>>
vars == <<pageVars, coreVars>>

\* State once DOMContentLoaded has run: listeners attached, health check sent.
Init ==
    /\ version \in {1, 2}
    /\ uploadRole = "Employee"
    /\ searchRole = "Employee"
    /\ selectedFile = Null
    /\ uploadZone = ZonePlaceholder
    /\ docType = "Employee"
    /\ uploadBtn = [disabled |-> FALSE, loading |-> FALSE]
    /\ uploadResult = Null
    /\ uploadCalls = <<>>
    /\ resetTimers = 0
    /\ uploadedSelection = FALSE
    /\ queryInput = <<>>
    /\ searchCalls = <<>>
    /\ searchAlone = TRUE
    /\ newestSearch = NoSearch
    /\ loadingState = "none"
    /\ answerContainer = "none"
    /\ answerPanel = EmptyPanel
    /\ toast = Null
    /\ health = "pending"
    /\ index = <<>>
    /\ ingest = [d \in Docs |-> [pc |-> "idle", next |-> 1, tag |-> ""]]
    /\ lastRetrieve = NoRetrieve

\* -------------------------------------------------------------- uploads
\* handleFileSelect with the size check left out.
HandleFileSelect_NoSizeCheck(file) ==
    IF file = Null THEN
        UNCHANGED <<selectedFile, uploadZone, toast>>
    ELSE IF file[1].type # PDF THEN
        /\ toast' = Some(ShowToast(MsgNotPdf(version), "error"))
        /\ UNCHANGED <<selectedFile, uploadZone>>
    ELSE
        /\ selectedFile' = file
        /\ uploadZone' = ZoneFor(file[1])
        /\ toast' = Some(ShowToast(<<"Selected: ", file[1].name>>, "success"))

\* handleFileSelect(file)
HandleFileSelect(file) ==
    IF file = Null THEN
        UNCHANGED <<selectedFile, uploadZone, toast>>
    ELSE IF file[1].type # PDF THEN
        /\ toast' = Some(ShowToast(MsgNotPdf(version), "error"))
        /\ UNCHANGED <<selectedFile, uploadZone>>
    ELSE IF file[1].size > MaxFileSize THEN
        /\ toast' = Some(ShowToast(MsgTooBig(version), "error"))
        /\ UNCHANGED <<selectedFile, uploadZone>>
    ELSE
        /\ selectedFile' = file
        /\ uploadZone' = ZoneFor(file[1])
        /\ toast' = Some(ShowToast(<<"Selected: ", file[1].name>>, "success"))

\* fileInput 'change' listener
FileInputChange(files) ==
    /\ \E file \in files : HandleFileSelect(file)
    /\ uploadedSelection' = (uploadedSelection /\ selectedFile' = selectedFile)
    /\ UNCHANGED <<coreVars, version, roleVars, docType, uploadBtn, uploadResult, uploadCalls,
                   resetTimers, searchVars, health>>

\* uploadZone 'drop' listener
Drop(files) ==
    /\ \E file \in files : HandleFileSelect(file)
    /\ uploadedSelection' = (uploadedSelection /\ selectedFile' = selectedFile)
    /\ UNCHANGED <<coreVars, version, roleVars, docType, uploadBtn, uploadResult, uploadCalls,
                   resetTimers, searchVars, health>>

\* The upload form filled with the other card's role.
UploadRequest_SearchRole ==
    [method |-> "POST",
     url |-> <<ApiBase(version), "/api/upload">>,
     form |-> [file |-> selectedFile[1], role |-> searchRole, doc_type |-> docType]]

\* The request handleUpload hands to fetch: FormData of file, role, doc_type.
UploadRequest ==
    [method |-> "POST",
     url |-> <<ApiBase(version), "/api/upload">>,
     form |-> [file |-> selectedFile[1], role |-> uploadRole, doc_type |-> docType]]

\* handleUpload(), up to its first await
HandleUpload ==
    IF selectedFile = Null THEN
        /\ toast' = Some(ShowToast(MsgNoFile(version), "error"))
        /\ UNCHANGED <<uploadBtn, uploadResult, uploadCalls>>
    ELSE
        /\ uploadBtn' = [disabled |-> TRUE, loading |-> TRUE]
        /\ uploadResult' = Null
        /\ uploadCalls' = Append(uploadCalls, [req |-> UploadRequest])
        /\ UNCHANGED toast

\* uploadBtn 'click' listener; a disabled button dispatches no click.
UploadBtnClick(cap) ==
    /\ ~uploadBtn.disabled
    /\ resetTimers < cap
    /\ HandleUpload
    /\ UNCHANGED <<coreVars, version, roleVars, selectedFile, uploadZone, docType, resetTimers,
                   uploadedSelection, searchVars, health>>

\* displayUploadResult(data): the rendering written to uploadResult.innerHTML.
DisplayUploadResult(data) ==
    IF version = 1
    THEN Some(<<data.filename, data.chunks_created, data.text_length, data.doc_type>>)
    ELSE Some(<<data.filename, data.chunks_created, data.doc_type>>)

\* handleUpload: catch (error) { showToast(error.message || fallback) }
UploadCatch(message) == Some(ShowToast(<<OrElse(message, MsgUploadCatch(version))>>, "error"))

\* A finally block that forgets to re-enable the button.
UploadFinally_StillDisabled == [disabled |-> TRUE, loading |-> FALSE]

\* handleUpload: finally { ... }
UploadFinally == [disabled |-> FALSE, loading |-> FALSE]

\* What `await fetch(...)` followed by `await response.json()` can produce:
\* a rejected fetch (network failure), or a response with its ok flag and a
\* body that is Null (not JSON) or Some(parsed data).  handleUpload and
\* handleSearch touch no state between the two awaits, so a call settles in
\* one step.
Rejected(message) == [kind |-> "rejected", message |-> message, ok |-> FALSE, body |-> Null]
Response(ok, body) == [kind |-> "response", message |-> "", ok |-> ok, body |-> body]

\* The outcomes of a reachable, conforming backend: a rejected fetch with a
\* message, a 200 with its body, a non-200 with a detail.
PageOutcome(o) ==
    /\ o.kind = "rejected" => o.message # ""
    /\ o.kind = "response" => o.body # Null /\ (~o.ok => ~Falsy(Detail(o.body[1])))

\* Bodies a response with the given ok flag may carry.
UploadBodies(ok) ==
    {Null} \cup {Some(d) : d \in IF ok THEN UploadOkBodies ELSE ErrorBodies}
UploadOutcomes ==
    {Rejected(m) : m \in NetworkErrors}
        \cup UNION {{Response(ok, b) : b \in UploadBodies(ok)} : ok \in BOOLEAN}

\* handleUpload with the reset timer set in `finally` instead of on success.
UploadSettleStep_ResetAlways(out) ==
    /\ IF out.kind = "rejected" THEN
           /\ toast' = UploadCatch(out.message)
           /\ UNCHANGED uploadResult
       ELSE IF out.body = Null THEN
           /\ toast' = UploadCatch(JsonErrorMessage)
           /\ UNCHANGED uploadResult
       ELSE IF out.ok THEN
           /\ toast' = Some(ShowToast(MsgUploaded(version), "success"))
           /\ uploadResult' = DisplayUploadResult(out.body[1])
       ELSE
           /\ toast' = UploadCatch(ThrownMessage(out.body[1], "Upload failed"))
           /\ UNCHANGED uploadResult
    /\ resetTimers' = resetTimers + 1
    /\ uploadBtn' = UploadFinally
    /\ uploadCalls' = Tail(uploadCalls)

\* handleUpload from `await fetch(...)` to its end: try / catch / finally.
UploadSettleStep(out) ==
    /\ IF out.kind = "rejected" THEN
           /\ toast' = UploadCatch(out.message)
           /\ UNCHANGED <<uploadResult, resetTimers>>
       ELSE IF out.body = Null THEN
           /\ toast' = UploadCatch(JsonErrorMessage)
           /\ UNCHANGED <<uploadResult, resetTimers>>
       ELSE IF out.ok THEN
           /\ toast' = Some(ShowToast(MsgUploaded(version), "success"))
           /\ uploadResult' = DisplayUploadResult(out.body[1])
           /\ resetTimers' = resetTimers + 1
       ELSE
           /\ toast' = UploadCatch(ThrownMessage(out.body[1], "Upload failed"))
           /\ UNCHANGED <<uploadResult, resetTimers>>
    /\ uploadBtn' = UploadFinally
    /\ uploadCalls' = Tail(uploadCalls)

\* all: every outcome; otherwise the conforming ones only.
UploadSettle(all) ==
    /\ uploadCalls # <<>>
    /\ \E out \in UploadOutcomes :
          /\ (all \/ PageOutcome(out))
          /\ UploadSettleStep(out)
          /\ uploadedSelection' =
                \/ uploadedSelection
                \/ /\ out.kind = "response" /\ out.ok /\ out.body # Null
                   /\ selectedFile = Some(uploadCalls[1].req.form.file)
    /\ UNCHANGED <<coreVars, version, roleVars, selectedFile, uploadZone, docType, searchVars, health>>

\* The callback of setTimeout(..., 2000) set by a successful upload.
ResetTimerFire ==
    /\ resetTimers > 0
    /\ resetTimers' = resetTimers - 1
    /\ selectedFile' = Null
    /\ uploadZone' = ZonePlaceholder
    /\ uploadedSelection' = FALSE
    /\ UNCHANGED <<coreVars, version, roleVars, docType, uploadBtn, uploadResult, uploadCalls,
                   searchVars, toast, health>>

\* The user picks another option of the docType select.
DocTypeChange ==
    /\ \E d \in DocTypes \ {docType} : docType' = d
    /\ UNCHANGED <<coreVars, version, roleVars, selectedFile, uploadZone, uploadBtn, uploadResult,
                   uploadCalls, resetTimers, uploadedSelection, searchVars, toast, health>>

\* ---------------------------------------------------------------- roles
\* data-target of a chip: 'search', 'upload' or absent.
ChipTargets == {"search", "upload", Undefined}

\* A chip listener that writes the clicked role to both variables.
ChipClickStep_Both(role, target) ==
    /\ searchRole' = role
    /\ uploadRole' = role

\* chip 'click' listener of initializeRoleButtons
ChipClickStep(role, target) ==
    IF OrElse(target, "upload") = "search" THEN
        /\ searchRole' = role
        /\ UNCHANGED uploadRole
    ELSE
        /\ uploadRole' = role
        /\ UNCHANGED searchRole

ChipClick(roles, targets) ==
    /\ \E role \in roles, target \in targets : ChipClickStep(role, target)
    /\ UNCHANGED <<coreVars, version, uploadVars, searchVars, toast, health>>

\* --------------------------------------------------------------- search
\* The user edits the query box.
QueryInput(texts) ==
    /\ \E t \in texts \ {queryInput} : queryInput' = t
    /\ UNCHANGED <<coreVars, version, roleVars, uploadVars, searchCalls, searchAlone, newestSearch, loadingState,
                   answerContainer, answerPanel, toast, health>>

\* The request handleSearch hands to fetch.
SearchRequest(query) ==
    [method |-> "POST",
     url |-> <<ApiBase(version), "/api/query">>,
     headers |-> [ContentType |-> "application/json"],
     body |-> [query |-> query, role |-> searchRole]]

\* handleSearch testing and sending the raw input value.
HandleSearch_NoTrim ==
    LET query == queryInput IN
    IF query = <<>> THEN
        /\ toast' = Some(ShowToast(MsgNoQuery(version), "error"))
        /\ UNCHANGED <<searchCalls, searchAlone, loadingState, answerContainer>>
    ELSE
        /\ loadingState' = "block"
        /\ answerContainer' = "none"
        /\ searchCalls' = Append(searchCalls, [req |-> SearchRequest(query)])
        /\ searchAlone' = (searchCalls = <<>>)
        /\ UNCHANGED toast

\* handleSearch(), up to its first await
HandleSearch ==
    LET query == Trim(queryInput) IN
    IF query = <<>> THEN
        /\ toast' = Some(ShowToast(MsgNoQuery(version), "error"))
        /\ UNCHANGED <<searchCalls, searchAlone, loadingState, answerContainer>>
    ELSE
        /\ loadingState' = "block"
        /\ answerContainer' = "none"
        /\ searchCalls' = Append(searchCalls, [req |-> SearchRequest(query)])
        /\ searchAlone' = (searchCalls = <<>>)
        /\ UNCHANGED toast

\* searchBtn 'click' listener
SearchBtnClick(cap) ==
    /\ Len(searchCalls) < cap
    /\ HandleSearch
    /\ newestSearch' = IF searchCalls' # searchCalls
                       THEN [status |-> "pending", panel |-> EmptyPanel] ELSE newestSearch
    /\ UNCHANGED <<coreVars, version, roleVars, uploadVars, queryInput, answerPanel, health>>

\* queryInput 'keypress' listener
QueryKeypress(cap) ==
    /\ Len(searchCalls) < cap
    /\ \E key \in {"Enter", "a"}, shiftKey \in BOOLEAN :
          IF key = "Enter" /\ ~shiftKey
          THEN HandleSearch
          ELSE UNCHANGED <<searchCalls, searchAlone, loadingState, answerContainer, toast>>
    /\ newestSearch' = IF searchCalls' # searchCalls
                       THEN [status |-> "pending", panel |-> EmptyPanel] ELSE newestSearch
    /\ UNCHANGED <<coreVars, version, roleVars, uploadVars, queryInput, answerPanel, health>>

\* (similarity * 100).toFixed(0), similarity given in thousandths.
Percent(similarity) == (similarity + 5) \div 10

\* One entry of sourcesList.innerHTML.
RenderSource(source) ==
    <<source.filename,
      IF source.page # 0 THEN <<" · Page ", source.page>> ELSE <<>>,
      Percent(source.similarity)>>
MsgNoSources(v) == IF v = 1 THEN <<"No sources available">> ELSE <<"No sources">>

\* displayAnswer(data): what it writes to answerText and sourcesList.
DisplayAnswer(data) ==
    [answerText |-> data.answer,
     sourcesList |->
        IF Len(data.sources) > 0
        THEN [i \in 1..Len(data.sources) |-> RenderSource(data.sources[i])]
        ELSE <<MsgNoSources(version)>>]

\* handleSearch: catch (error) { showToast(error.message || fallback) }
SearchCatch(message) == Some(ShowToast(<<OrElse(message, MsgSearchCatch(version))>>, "error"))

SearchBodies(req, ok) ==
    {Null} \cup {Some(d) : d \in IF ok THEN SearchOkBodies(req) ELSE ErrorBodies}
SearchOutcomes(req) ==
    {Rejected(m) : m \in NetworkErrors}
        \cup UNION {{Response(ok, b) : b \in SearchBodies(req, ok)} : ok \in BOOLEAN}

\* s without its i-th element.
RemoveAt(s, i) == SubSeq(s, 1, i - 1) \o SubSeq(s, i + 1, Len(s))

\* handleSearch whose catch block does not hide the loading indicator.
SearchSettleStep_KeepLoading(i, out) ==
    /\ IF out.kind = "rejected" THEN
           /\ toast' = SearchCatch(out.message)
           /\ UNCHANGED <<loadingState, answerContainer, answerPanel>>
       ELSE IF out.body = Null THEN
           /\ toast' = SearchCatch(JsonErrorMessage)
           /\ UNCHANGED <<loadingState, answerContainer, answerPanel>>
       ELSE IF out.ok THEN
           /\ loadingState' = "none"
           /\ answerContainer' = "block"
           /\ answerPanel' = DisplayAnswer(out.body[1])
           /\ UNCHANGED toast
       ELSE
           /\ toast' = SearchCatch(ThrownMessage(out.body[1], "Search failed"))
           /\ UNCHANGED <<loadingState, answerContainer, answerPanel>>
    /\ searchCalls' = RemoveAt(searchCalls, i)

\* The i-th pending handleSearch from `await fetch(...)` to its end.
SearchSettleStep(i, out) ==
    /\ IF out.kind = "rejected" THEN
           /\ toast' = SearchCatch(out.message)
           /\ loadingState' = "none"
           /\ UNCHANGED <<answerContainer, answerPanel>>
       ELSE IF out.body = Null THEN
           /\ toast' = SearchCatch(JsonErrorMessage)
           /\ loadingState' = "none"
           /\ UNCHANGED <<answerContainer, answerPanel>>
       ELSE IF out.ok THEN
           /\ loadingState' = "none"
           /\ answerContainer' = "block"
           /\ answerPanel' = DisplayAnswer(out.body[1])
           /\ UNCHANGED toast
       ELSE
           /\ toast' = SearchCatch(ThrownMessage(out.body[1], "Search failed"))
           /\ loadingState' = "none"
           /\ UNCHANGED <<answerContainer, answerPanel>>
    /\ searchCalls' = RemoveAt(searchCalls, i)

SearchSettle(all) ==
    /\ \E i \in 1..Len(searchCalls) :
          \E out \in SearchOutcomes(searchCalls[i].req) :
              /\ (all \/ PageOutcome(out))
              /\ SearchSettleStep(i, out)
              /\ newestSearch' =
                    IF i = Len(searchCalls) /\ newestSearch.status = "pending"
                    THEN IF out.kind = "response" /\ out.ok /\ out.body # Null
                         THEN [status |-> "shown", panel |-> DisplayAnswer(out.body[1])]
                         ELSE [status |-> "failed", panel |-> EmptyPanel]
                    ELSE newestSearch
    /\ UNCHANGED <<coreVars, version, roleVars, uploadVars, queryInput, searchAlone, health>>

\* --------------------------------------------------------------- health
\* checkBackendHealth resumes from `await fetch(.../api/health)`.
HealthSettle ==
    /\ health = "pending"
    /\ health' = "done"
    /\ \/ \E ok \in BOOLEAN : UNCHANGED toast
       \/ toast' = Some(ShowToast(MsgHealth(version), "error"))
    /\ UNCHANGED <<coreVars, version, roleVars, uploadVars, searchVars>>

\* ------------------------------------------- retrieval / indexing core
\* ingest(...): Document record created, text chunked, embed_many called;
\* an EmbeddingError fails the call before any insert.
IngestStart ==
    /\ \E d \in Docs, tag \in IngestTags :
          /\ ingest[d].pc = "idle"
          /\ \/ ingest' = [ingest EXCEPT ![d] = [pc |-> "inserting", next |-> 1, tag |-> tag]]
             \/ ingest' = [ingest EXCEPT ![d] = [pc |-> "failed", next |-> 1, tag |-> tag]]
    /\ UNCHANGED <<pageVars, index, lastRetrieve>>

\* ingest: Vector Index insert of the next (chunk, vector) pair.
IngestInsertStep(d) ==
    LET st == ingest[d]
        chunk == [document_id |-> d, seq |-> st.next, access_tag |-> st.tag,
                  embedding |-> DocChunks(d)[st.next]]
    IN /\ index' = Append(index, chunk)
       /\ ingest' = [ingest EXCEPT ![d] =
              [st EXCEPT !.next = st.next + 1,
                         !.pc = IF st.next = Len(DocChunks(d)) THEN "done" ELSE "inserting"]]

IngestInsert ==
    /\ \E d \in Docs : ingest[d].pc = "inserting" /\ IngestInsertStep(d)
    /\ UNCHANGED <<pageVars, lastRetrieve>>

\* ingest: an insert fails, or the caller's timeout expires, partway.
IngestInsertFail ==
    /\ \E d \in Docs :
          /\ ingest[d].pc = "inserting"
          /\ ingest' = [ingest EXCEPT ![d].pc = "rollback"]
    /\ UNCHANGED <<pageVars, index, lastRetrieve>>

\* A failing ingest that leaves its inserted chunks in the index.
IngestRollbackStep_NoDelete(d) ==
    /\ index' = index
    /\ ingest' = [ingest EXCEPT ![d].pc = "failed"]

\* ingest: roll back via delete(document_id), then fail.
IngestRollbackStep(d) ==
    /\ index' = DeleteDoc(index, d)
    /\ ingest' = [ingest EXCEPT ![d].pc = "failed"]

IngestRollback ==
    /\ \E d \in Docs : ingest[d].pc = "rollback" /\ IngestRollbackStep(d)
    /\ UNCHANGED <<pageVars, lastRetrieve>>

\* delete(document_id) of an indexed document (document lifecycle).
DeleteDocument ==
    /\ \E d \in Docs :
          /\ ingest[d].pc \in {"done", "deleted"}
          /\ index' = DeleteDoc(index, d)
          /\ ingest' = [ingest EXCEPT ![d].pc = "deleted"]
    /\ UNCHANGED <<pageVars, lastRetrieve>>

\* retrieve(query_text, role, k): resolve allowed_tags, embed, search.
RetrieveStep(role, k) ==
    LET allowed == AllowedTags(role) IN
    IF allowed = Null THEN
        lastRetrieve' = [role |-> role, k |-> k, outcome |-> "UnknownRoleError",
                         searched |-> FALSE, results |-> <<>>]
    ELSE
        \/ lastRetrieve' = [role |-> role, k |-> k, outcome |-> "EmbeddingError",
                            searched |-> FALSE, results |-> <<>>]
        \/ lastRetrieve' = [role |-> role, k |-> k, outcome |-> "ok",
                            searched |-> TRUE,
                            results |-> Search(index, QueryVector, k, allowed[1])]

Retrieve ==
    /\ \E role \in CallerRoles, k \in 1..MaxK : RetrieveStep(role, k)
    /\ UNCHANGED <<pageVars, index, ingest>>

\* ------------------------------------------------------- specifications
\* The retrieval / indexing core under concurrent callers.
NextCore ==
    \/ IngestStart
    \/ IngestInsert
    \/ IngestInsertFail
    \/ IngestRollback
    \/ DeleteDocument
    \/ Retrieve

SpecCore == Init /\ [][NextCore]_vars

\* The upload card: every file, every role chip.
NextUpload ==
    \/ FileInputChange(FileArgs)
    \/ Drop(FileArgs)
    \/ UploadBtnClick(MaxTimers)
    \/ UploadSettle(TRUE)
    \/ ResetTimerFire
    \/ DocTypeChange
    \/ ChipClick(Roles, {"upload", Undefined})

SpecUpload == Init /\ [][NextUpload]_vars

\* The search card.
NextSearch ==
    \/ QueryInput(QueryTexts)
    \/ SearchBtnClick(MaxInFlight)
    \/ QueryKeypress(MaxInFlight)
    \/ SearchSettle(TRUE)
    \/ ChipClick(Roles, {"search"})

SpecSearch == Init /\ [][NextSearch]_vars

\* The whole page: every listener and callback of script.js, driven with one
\* valid and one invalid file, one query, and one request or timer of a kind
\* pending at a time.
PageFiles == {Null, Some(FileA), Some(FileTxt)}
PageTexts == {<<>>, <<"\t", "q", " ">>}
\* ... and with the conforming outcomes as the ways a request settles.
NextPage ==
    \/ FileInputChange(PageFiles)
    \/ Drop(PageFiles)
    \/ UploadBtnClick(MaxPagePending)
    \/ UploadSettle(FALSE)
    \/ ResetTimerFire
    \/ ChipClick(Roles, ChipTargets)
    \/ QueryInput(PageTexts)
    \/ SearchBtnClick(MaxPagePending)
    \/ QueryKeypress(MaxPagePending)
    \/ SearchSettle(FALSE)
    \/ HealthSettle

SpecPage == Init /\ [][NextPage]_vars

\* Both cards with one file and one query, every way a request can settle.
NextRequests ==
    \/ FileInputChange({Some(FileA)})
    \/ UploadBtnClick(MaxPagePending)
    \/ UploadSettle(TRUE)
    \/ ResetTimerFire
    \/ QueryInput(PageTexts)
    \/ SearchBtnClick(MaxPagePending)
    \/ SearchSettle(TRUE)

SpecRequests == Init /\ [][NextRequests]_vars

\* =================================================================== claims
\* A toast of type 'error'.
IsErrorToast(t) == t # Null /\ t[1].type = "error"

\* ------------------------------------------------------------------- C1
\* C1: in every reachable state selectedFile is null or a file of type
\* 'application/pdf' of at most 20*1024*1024 bytes, and the `file` field of
\* every /api/upload request in flight is such a file.
IsPdfUpTo20MB(f) == f.type = "application/pdf" /\ f.size <= 20 * 1024 * 1024
C1_SelectedFileIsSmallPdf ==
    /\ selectedFile # Null => IsPdfUpTo20MB(selectedFile[1])
    /\ \A i \in 1..Len(uploadCalls) : IsPdfUpTo20MB(uploadCalls[i].req.form.file)
\* A file of exactly 20MB was accepted and is being uploaded.
C1_Witness ==
    /\ uploadCalls # <<>>
    /\ uploadCalls[1].req.form.file.size = 20 * 1024 * 1024
    /\ selectedFile = Some(uploadCalls[1].req.form.file)

\* ------------------------------------------------------------------- C2
\* C2: a click on the upload button sends a request only when selectedFile
\* is not null; the request is a POST to /api/upload whose form has exactly
\* the fields file, role, doc_type with the values of selectedFile,
\* uploadRole and the docType select at the click, and nothing alters it
\* while it is in flight; with selectedFile null nothing is sent, an error
\* toast is shown, and button and result panel stay as they are.
C2_UploadRequest ==
    [][/\ UploadBtnClick(MaxTimers) =>
             IF selectedFile = Null
             THEN /\ uploadCalls' = uploadCalls
                  /\ IsErrorToast(toast')
                  /\ uploadBtn' = uploadBtn
                  /\ uploadResult' = uploadResult
             ELSE /\ Len(uploadCalls') = Len(uploadCalls) + 1
                  /\ LET req == uploadCalls'[Len(uploadCalls')].req
                     IN /\ req.method = "POST"
                        /\ req.url[2] = "/api/upload"
                        /\ DOMAIN req.form = {"file", "role", "doc_type"}
                        /\ req.form.file = selectedFile[1]
                        /\ req.form.role = uploadRole
                        /\ req.form.doc_type = docType
       /\ Len(uploadCalls') > Len(uploadCalls) => selectedFile # Null
       /\ (uploadCalls # <<>> /\ uploadCalls' # <<>>) => uploadCalls' = uploadCalls
      ]_vars
\* A request is in flight while the selection, the role and the document
\* type have all moved on from what it carries.
C2_Witness ==
    /\ uploadCalls # <<>>
    /\ selectedFile # Null
    /\ selectedFile[1] # uploadCalls[1].req.form.file
    /\ uploadRole # uploadCalls[1].req.form.role
    /\ docType # uploadCalls[1].req.form.doc_type

\* ------------------------------------------------------------------- C5
\* C5: the upload button is disabled and marked loading exactly while an
\* upload request is in flight: from the click that sends it until it
\* settles, and enabled and not loading once it has settled in any way.
C5_ButtonTracksRequest ==
    /\ uploadCalls # <<>> => uploadBtn.disabled /\ uploadBtn.loading
    /\ uploadCalls = <<>> => ~uploadBtn.disabled /\ ~uploadBtn.loading
\* An upload has settled with a body that is not JSON; the button is back.
C5_Witness ==
    /\ uploadCalls = <<>>
    /\ toast = Some([message |-> <<JsonErrorMessage>>, type |-> "error"])
    /\ ~uploadBtn.disabled

\* ------------------------------------------------------------------ C10
\* C10: an upload that fails (rejected fetch, non-OK response or a body
\* that is not JSON) leaves selectedFile as it is and sets no reset timer;
\* only an upload whose response is OK sets the timer, and the timer's
\* callback sets selectedFile to null and restores the placeholder.
UploadFailed(out) == out.kind = "rejected" \/ out.body = Null \/ ~out.ok
C10_OnlySuccessResets ==
    [][/\ \A out \in UploadOutcomes :
             (uploadCalls # <<>> /\ UploadSettleStep(out) /\ UploadFailed(out)) =>
                 /\ selectedFile' = selectedFile
                 /\ resetTimers' = resetTimers
                 /\ uploadZone' = uploadZone
       /\ resetTimers' > resetTimers =>
             \E out \in UploadOutcomes :
                 out.kind = "response" /\ out.ok /\ UploadSettleStep(out)
       /\ resetTimers' < resetTimers =>
             selectedFile' = Null /\ uploadZone' = ZonePlaceholder
       /\ (selectedFile # Null /\ selectedFile' = Null) => resetTimers' < resetTimers
      ]_vars
\* A failed upload has settled: the file is still selected, shown in the
\* zone, no timer is pending and the button can be clicked again.
C10_Witness ==
    /\ uploadCalls = <<>>
    /\ toast = Some([message |-> <<"Upload failed">>, type |-> "error"])
    /\ selectedFile = Some(FileB)
    /\ uploadZone.text = <<"b.pdf">>
    /\ resetTimers = 0
    /\ ~uploadBtn.disabled

\* ------------------------------------------------------------------- C3
\* C3: handleSearch sends a request iff the query input holds something
\* other than whitespace; the request is a POST to /api/query with body
\* {query, role}: the input without its leading and trailing whitespace, and
\* searchRole as it is at the call.  For an empty or whitespace-only input
\* nothing is sent, an error toast is shown, and loading indicator and
\* answer container keep their visibility.
AllWhitespace(s) == \A i \in 1..Len(s) : s[i] \in {" ", "\t", "\n"}
IsTrimOf(q, s) ==
    /\ q # <<>>
    /\ ~AllWhitespace(<<q[1]>>)
    /\ ~AllWhitespace(<<q[Len(q)]>>)
    /\ \E i \in 1..Len(s) : \E j \in i..Len(s) :
          /\ SubSeq(s, i, j) = q
          /\ AllWhitespace(SubSeq(s, 1, i - 1))
          /\ AllWhitespace(SubSeq(s, j + 1, Len(s)))
C3_SearchRequest ==
    [][/\ (SearchBtnClick(MaxInFlight) \/ QueryKeypress(MaxInFlight)) =>
             IF AllWhitespace(queryInput)
             THEN /\ searchCalls' = searchCalls
                  /\ IsErrorToast(toast')
                  /\ loadingState' = loadingState
                  /\ answerContainer' = answerContainer
             ELSE /\ Len(searchCalls') = Len(searchCalls) + 1
                  /\ LET req == searchCalls'[Len(searchCalls')].req
                     IN /\ req.method = "POST"
                        /\ req.url[2] = "/api/query"
                        /\ DOMAIN req.body = {"query", "role"}
                        /\ IsTrimOf(req.body.query, queryInput)
                        /\ req.body.role = searchRole
       /\ Len(searchCalls') > Len(searchCalls) => ~AllWhitespace(queryInput)
       /\ \A i \in 1..Len(searchCalls) :
             Len(searchCalls') >= Len(searchCalls) => searchCalls'[i] = searchCalls[i]
      ]_vars
\* A request carrying the trimmed text of a padded input is in flight, after
\* the role and the input have changed.
C3_Witness ==
    /\ searchCalls # <<>>
    /\ searchCalls[1].req.body.query = <<"q">>
    /\ searchCalls[1].req.body.role = "Admin"
    /\ searchRole = "HR"
    /\ queryInput = <<" ", "\n">>

\* ------------------------------------------------------------------- C6
\* C6: a search that runs with no other search in flight goes loading ->
\* success/error: its start shows the loading indicator and hides the
\* answer container, which stay so while it is pending; when it settles,
\* either (OK response with a JSON body) the indicator is hidden and the
\* container shown with the response's answer and sources, or (rejected
\* fetch, non-OK response, body not JSON) the indicator is hidden, the
\* container still hidden and an error toast shown.  With no search
\* pending the indicator is never visible.
SearchSucceeded(out) == out.kind = "response" /\ out.ok /\ out.body # Null
ShowsSources(list, sources) ==
    IF sources = <<>>
    THEN list \in {<< <<"No sources available">> >>, << <<"No sources">> >>}
    ELSE /\ Len(list) = Len(sources)
         /\ \A i \in 1..Len(sources) : list[i][1] = sources[i].filename
C6_LoadingThenSuccessOrError ==
    /\ [](searchCalls = <<>> => loadingState = "none")
    /\ []((Len(searchCalls) = 1 /\ searchAlone) =>
             loadingState = "block" /\ answerContainer = "none")
    /\ [][/\ ((SearchBtnClick(MaxInFlight) \/ QueryKeypress(MaxInFlight))
                  /\ ~AllWhitespace(queryInput)) =>
                loadingState' = "block" /\ answerContainer' = "none"
          /\ (Len(searchCalls) = 1 /\ searchAlone) =>
                \A out \in SearchOutcomes(searchCalls[1].req) :
                    SearchSettleStep(1, out) =>
                        IF SearchSucceeded(out)
                        THEN /\ loadingState' = "none"
                             /\ answerContainer' = "block"
                             /\ answerPanel'.answerText = out.body[1].answer
                             /\ ShowsSources(answerPanel'.sourcesList, out.body[1].sources)
                             /\ toast' = toast
                        ELSE /\ loadingState' = "none"
                             /\ answerContainer' = "none"
                             /\ answerPanel' = answerPanel
                             /\ IsErrorToast(toast')
          ]_vars
\* A search that ran alone has ended in the success state, with sources.
C6_Witness ==
    /\ searchCalls = <<>>
    /\ searchAlone
    /\ loadingState = "none"
    /\ answerContainer = "block"
    /\ answerPanel.answerText = <<"answer to", <<"q">>>>
    /\ Len(answerPanel.sourcesList[1]) = 3

\* ------------------------------------------------------------------- C4
\* The error toast with the given text.
ErrorToast(text) == Some([message |-> <<text>>, type |-> "error"])
HasDetail(body) == body # Null /\ "detail" \in DOMAIN body[1] /\ body[1].detail # ""

\* C4: for upload and search, a response that is not OK never
\* reaches displayUploadResult / displayAnswer and produces an error toast
\* whose text is the body's detail when present and non-empty and the fixed
\* fallback ('Upload failed' / 'Search failed') otherwise; an OK response
\* never produces an error toast from the handler.
C4_ErrorToastOfResponse ==
    [][/\ uploadCalls # <<>> =>
             \A out \in UploadOutcomes :
                 (out.kind = "response" /\ UploadSettleStep(out)) =>
                     /\ ~out.ok =>
                           /\ uploadResult' = uploadResult
                           /\ toast' = ErrorToast(IF HasDetail(out.body)
                                                  THEN out.body[1].detail ELSE "Upload failed")
                     /\ out.ok => ~IsErrorToast(toast')
       /\ \A i \in 1..Len(searchCalls) :
             \A out \in SearchOutcomes(searchCalls[i].req) :
                 (out.kind = "response" /\ SearchSettleStep(i, out)) =>
                     /\ ~out.ok =>
                           /\ answerContainer' = answerContainer
                           /\ answerPanel' = answerPanel
                           /\ toast' = ErrorToast(IF HasDetail(out.body)
                                                  THEN out.body[1].detail ELSE "Search failed")
                     /\ out.ok => toast' = toast
      ]_vars

\* ------------------------------------------------------------------- C9
\* C9: uploadRole and searchRole both start as 'Employee'; a click on a chip
\* whose target is 'search' sets searchRole to the chip's role and leaves
\* uploadRole, a click on a chip with another or no target sets uploadRole
\* and leaves searchRole; no step other than a chip click (file selection,
\* upload, search, reset, health check) changes either.
C9_RolesChangeOnlyByChips ==
    /\ uploadRole = "Employee" /\ searchRole = "Employee"
    /\ [][/\ \A role \in Roles, target \in ChipTargets :
                 (ChipClickStep(role, target) /\ UNCHANGED <<uploadVars, searchVars, toast, health>>) =>
                     IF target = "search"
                     THEN searchRole' = role /\ uploadRole' = uploadRole
                     ELSE uploadRole' = role /\ searchRole' = searchRole
           /\ ~ChipClick(Roles, ChipTargets) => (uploadRole' = uploadRole /\ searchRole' = searchRole)
          ]_vars
\* The two roles differ from each other and from the initial one after
\* the health check and a search have completed, a toast has been shown
\* and while an upload is in flight.
C9_Witness ==
    /\ uploadRole = "Admin"
    /\ searchRole = "HR"
    /\ health = "done"
    /\ IsErrorToast(toast)
    /\ answerContainer = "block"
    /\ uploadCalls # <<>>

\* ------------------------------------------------------------------- C7
\* C7: for every role with a mapping, retrieve returns no chunk whose
\* access_tag is outside allowed_tags(role), after any sequence of ingest,
\* delete and retrieve calls, however large k is; for a role without a
\* mapping the call fails with UnknownRoleError and no search runs.
C7_RetrieveRespectsAccess ==
    /\ lastRetrieve.outcome = "ok" =>
          /\ lastRetrieve.role \in DOMAIN RoleConfig
          /\ \A i \in 1..Len(lastRetrieve.results) :
                lastRetrieve.results[i].chunk.access_tag \in RoleConfig[lastRetrieve.role]
    /\ (lastRetrieve.outcome # "none" /\ lastRetrieve.role \notin DOMAIN RoleConfig) =>
          /\ lastRetrieve.outcome = "UnknownRoleError"
          /\ ~lastRetrieve.searched
          /\ lastRetrieve.results = <<>>
\* An Employee retrieve with room to spare in k returned fewer chunks than
\* k although the index holds an HR chunk.
C7_Witness ==
    /\ lastRetrieve.outcome = "ok"
    /\ lastRetrieve.role = "Employee"
    /\ Len(lastRetrieve.results) = 1
    /\ lastRetrieve.k = 2
    /\ \E i \in 1..Len(index) : index[i].access_tag = "HR"
    /\ \E i \in 1..Len(index) : index[i].access_tag = "Employee"

\* ------------------------------------------------------------------- C8
\* Every chunk of document d is in idx.
FullyIndexed(idx, d) ==
    Cardinality({i \in 1..Len(idx) : idx[i].document_id = d}) = Len(DocChunks(d))
HoldsChunkOf(idx, d) == \E i \in 1..Len(idx) : idx[i].document_id = d

\* C8 as stated: no search, one running concurrently with a failing ingest
\* included, ever returns a chunk of a document that is only partially
\* indexed.
C8_NoPartialDocumentReturned ==
    [][lastRetrieve' # lastRetrieve =>
          \A i \in 1..Len(lastRetrieve'.results) :
              FullyIndexed(index, lastRetrieve'.results[i].chunk.document_id)
      ]_vars

\* C8 (amended): when embedding or an insert fails partway through ingest,
\* the chunks already inserted are rolled back via delete(document_id), so
\* that once the failing ingest has returned the index holds no chunk of
\* the document and no search returns one; a search returns chunks of a
\* partially indexed document only while that document's ingest is still
\* running.
C8_RolledBackOnceIngestReturns ==
    /\ [](\A d \in Docs : ingest[d].pc = "failed" => ~HoldsChunkOf(index, d))
    /\ [][lastRetrieve' # lastRetrieve =>
              \A i \in 1..Len(lastRetrieve'.results) :
                  LET d == lastRetrieve'.results[i].chunk.document_id
                  IN /\ ingest[d].pc # "failed"
                     /\ ~FullyIndexed(index, d) => ingest[d].pc \in {"inserting", "rollback"}
          ]_vars
\* An ingest of d1 failed after its first insert and has returned; a
\* search with room in k returned the other document's chunk only.
C8_Witness ==
    /\ ingest["d1"].pc = "failed"
    /\ ingest["d1"].next = 2
    /\ ingest["d2"].pc = "done"
    /\ lastRetrieve.outcome = "ok"
    /\ lastRetrieve.k = 2
    /\ Len(lastRetrieve.results) = 1
    /\ lastRetrieve.results[1].chunk.document_id = "d2"

\* ------------------------------------------------------------------ C11
\* C11: a file accepted by handleFileSelect stays selected until another
\* file is accepted or an upload of that same file has succeeded (the delayed
\* reset of a successful upload never clears a different file selected while
\* the upload was in flight or before the reset fired), and whenever the
\* upload zone shows a file name, selectedFile is that file.
C11_FileStaysSelected ==
    /\ [](uploadZone # ZonePlaceholder =>
             selectedFile # Null /\ uploadZone = ZoneFor(selectedFile[1]))
    /\ [][(selectedFile # Null /\ selectedFile' # selectedFile) =>
              (selectedFile' # Null \/ uploadedSelection)
          ]_vars

\* ------------------------------------------------------------------ C12
\* C12: when searches are started before earlier ones have settled and
\* their responses arrive in any order, the answer and sources displayed
\* once all have settled are those of the most recently submitted query; a
\* response to an older query never overwrites the answer of a newer one.
C12_NewestAnswerDisplayed ==
    /\ []((searchCalls = <<>> /\ newestSearch.status = "shown") =>
             (answerContainer = "block" /\ answerPanel = newestSearch.panel))
    /\ [][(newestSearch.status = "shown" /\ newestSearch' = newestSearch) =>
              answerPanel' = answerPanel
          ]_vars

\* ------------------------------------------------------------------ C13
\* C13: in every reachable state, if at least one /api/query request is in
\* flight the loading indicator is shown and the answer container hidden;
\* the indicator is hidden only when no search is outstanding.
C13_LoadingWhileAnyInFlight ==
    /\ searchCalls # <<>> => (loadingState = "block" /\ answerContainer = "none")
    /\ loadingState = "none" => searchCalls = <<>>

====
